---- MODULE Spec2Model ----
(***************************************************************************)
(* Reorder-point inventory simulation (minimarket stock model).            *)
(*                                                                         *)
(* Two front ends drive the same day loop: the Flask form of app.py        *)
(* (entry "web") and the Streamlit dashboard of simulation.py, which calls *)
(* the inventory_model copy kept in tempCodeRunnerFile.py (entry "dash").  *)
(*                                                                         *)
(* Amounts that the program holds as floats with two decimals (stock,      *)
(* demand, backlog, mean_demand, demand_std) are integers counted in       *)
(* hundredths of a unit; quantities the program holds as ints (days,       *)
(* initial_stock, reorder_point, reorder_qty, lead_time, deliveries,       *)
(* order) are integers counted in units.  Float arithmetic is modelled by  *)
(* exact decimal arithmetic.                                               *)
(***************************************************************************)
EXTENDS Integers, Sequences, FiniteSets, TLC

\* ------------------------------------------------------------------ bounds
MaxDays == 3
MaxLead == 2
\* longest horizon of a rendered result
MaxViewDays == 180

Runs == {1, 2}

\* hundredths per unit: the two decimals of np.round(x, 2)
Scale == 100
Cents(units) == units * Scale

\* ------------------------------------------------------- request parameters
DaysSet  == -1 .. MaxDays
StockSet == {-5, 0, 25}
PointSet == {0, 10}
QtySet   == {-10, 0, 15}
MeanSet  == {0, 1000}
StdSet   == {-100, 0, 325}
LeadSet  == 0 .. MaxLead
SeedSet  == {1, 2}

\* standard-normal samples the generator may return, in tenths
ZSet == {-40, 0, 13}

InventoryParams ==
    [days : DaysSet, initial_stock : StockSet, reorder_point : PointSet,
     reorder_qty : QtySet, mean_demand : MeanSet, demand_std : StdSet,
     lead_time : LeadSet, seed : SeedSet]

\* what the form of app.py accepts: int()/float() of any numeric text
FormParams == InventoryParams

\* what the dashboard's number_input widgets let through: each widget clamps
\* its value to [min_value, max_value]
WidgetParams ==
    {p \in InventoryParams :
        /\ p.days >= 1
        /\ p.initial_stock >= 0
        /\ p.mean_demand >= Cents(1)
        /\ p.lead_time >= 1
        /\ p.reorder_point >= 0
        /\ p.reorder_qty >= 1
        /\ p.demand_std >= 0
        /\ p.seed >= 0}

DEFAULT_PARAMS ==
    [days |-> 180, initial_stock |-> 800, reorder_point |-> 300,
     reorder_qty |-> 600, mean_demand |-> 12000, demand_std |-> 3000,
     lead_time |-> 7, seed |-> 42]

\* ------------------------------------------------------------------ helpers
Min(a, b) == IF a <= b THEN a ELSE b
Max(a, b) == IF a >= b THEN a ELSE b

\* round n/d to the nearest integer, ties to the even one (numpy, format)
RoundHalfEven(n, d) ==
    LET q == n \div d
        r == n % d
    IN  IF 2 * r < d THEN q
        ELSE IF 2 * r > d THEN q + 1
        ELSE IF q % 2 = 0 THEN q ELSE q + 1

\* np.round(x, 2) of an amount given in thousandths; the result in hundredths
Round2(milli) == RoundHalfEven(milli, 10)

\* an amount in hundredths, written in thousandths
Milli(cents) == cents * 10

RECURSIVE SumQty(_)
SumQty(orders) ==
    IF orders = <<>> THEN 0 ELSE Head(orders).qty + SumQty(Tail(orders))

\* ------------------------------------------------------------ engine, app.py
\* rng.normal(mean, std) = mean + std * z for the standard-normal sample z
Normal(mean, std, z) == Milli(mean) + std * z

\* the sample rounded without the clamp at 0
DemandUnclamped(mean, std, z) == Round2(Normal(mean, std, z))

\* demand of one day: clamp at 0, then round to two decimals
Demand(mean, std, z) == Round2(Max(0, Normal(mean, std, z)))

Arrivals(pipeline, day) ==
    SumQty(SelectSeq(pipeline, LAMBDA o : o.arrival = day))

\* variant: an order arriving today is kept
StillPendingFromToday(pipeline, day) ==
    SelectSeq(pipeline, LAMBDA o : o.arrival >= day)

StillPending(pipeline, day) ==
    SelectSeq(pipeline, LAMBDA o : o.arrival > day)

\* variant: the whole demand is served whatever the stock
SatisfiedInFull(stock, demand) == demand

\* variant: one unit is held back from the customers
SatisfiedKeepReserve(stock, demand) == Min(Max(stock - Scale, 0), demand)

Satisfied(stock, demand) == Min(stock, demand)

\* variant: stock < reorder_point
NeedsReorderStrict(stock, pipeline, params) ==
    stock < Cents(params.reorder_point)

\* variant: no new order while an earlier one is still on its way
NeedsReorderUnlessPending(stock, pipeline, params) ==
    stock <= Cents(params.reorder_point) /\ pipeline = <<>>

NeedsReorder(stock, pipeline, params) == stock <= Cents(params.reorder_point)

\* variant: backlog = unmet
Overwrite(backlog, unmet) == unmet

\* backlog += unmet
Accumulate(backlog, unmet) == backlog + unmet

\* variant: range(params.days)
InRangeShort(day, days) == 0 <= day /\ day < days

\* day in range(params.days + 1)
InRange(day, days) == 0 <= day /\ day < days + 1

\* one pass of the for loop of simulate_inventory over the loop state
\* s = [stock, backlog, pipeline, records] with the demand sample z
AppDay(params, s, day, z) ==
    LET deliveries == Arrivals(s.pipeline, day)
        pending    == StillPending(s.pipeline, day)
        stock1     == s.stock + Cents(deliveries)
        demand     == Demand(params.mean_demand, params.demand_std, z)
        satisfied  == Satisfied(stock1, demand)
        stock2     == stock1 - satisfied
        unmet      == demand - satisfied
        backlog2   == Accumulate(s.backlog, unmet)
        reorder    == NeedsReorder(stock2, pending, params)
        order      == IF reorder THEN params.reorder_qty ELSE 0
        pipeline2  == IF reorder
                      THEN Append(pending, [qty |-> params.reorder_qty,
                                            arrival |-> day + params.lead_time])
                      ELSE pending
    IN  [stock    |-> stock2,
         backlog  |-> backlog2,
         pipeline |-> pipeline2,
         records  |-> Append(s.records,
                        [Hari              |-> day,
                         Stok_tersedia     |-> Round2(Milli(stock2)),
                         Kedatangan_barang |-> deliveries,
                         Permintaan        |-> demand,
                         Order_ditempatkan |-> order,
                         Backlog           |-> Round2(Milli(backlog2))])]

\* ------------------------------------------------- engine, inventory_model
\* the copy of the loop body in tempCodeRunnerFile.py, which takes the eight
\* parameters as keyword arguments
ModelDay(days, initial_stock, reorder_point, reorder_qty, mean_demand, demand_std, lead_time, seed, s, day, z) ==
    LET arrived    == SelectSeq(s.pipeline, LAMBDA o : o.arrival = day)
        deliveries == SumQty(arrived)
        pending    == SelectSeq(s.pipeline, LAMBDA o : o.arrival > day)
        stock1     == s.stock + deliveries * Scale
        raw        == mean_demand * 10 + demand_std * z
        demand     == RoundHalfEven(IF raw < 0 THEN 0 ELSE raw, 10)
        satisfied  == IF stock1 <= demand THEN stock1 ELSE demand
        stock2     == stock1 - satisfied
        unmet      == demand - satisfied
        backlog2   == s.backlog + unmet
        reorder    == stock2 <= reorder_point * Scale
        order      == IF reorder THEN reorder_qty ELSE 0
        pipeline2  == IF reorder
                      THEN pending \o << [qty |-> reorder_qty,
                                          arrival |-> day + lead_time] >>
                      ELSE pending
    IN  [stock    |-> stock2,
         backlog  |-> backlog2,
         pipeline |-> pipeline2,
         records  |-> s.records \o
                      << [Hari              |-> day,
                          Stok_tersedia     |-> RoundHalfEven(stock2 * 10, 10),
                          Kedatangan_barang |-> deliveries,
                          Permintaan        |-> demand,
                          Order_ditempatkan |-> order,
                          Backlog           |-> RoundHalfEven(backlog2 * 10, 10)] >>]

\* ------------------------------------------------------- summarize, app.py
\* a pandas cell that may be NaN: <<>> is NaN, <<v>> is the number v
NaN == <<>>

\* df["Backlog"].diff(): row i minus row i-1, NaN in the first row
Diff(df, i) ==
    IF i = 1 THEN NaN ELSE << df[i].Backlog - df[i - 1].Backlog >>

\* .clip(lower=0): NaN stays NaN
ClipLower(cell, low) == IF cell = NaN THEN NaN ELSE << Max(cell[1], low) >>

\* .fillna(v)
FillNa(cell, v) == IF cell = NaN THEN v ELSE cell[1]

\* served of row i
Served(df, i) == df[i].Permintaan - FillNa(ClipLower(Diff(df, i), 0), 0)

RECURSIVE SumServed(_, _)
\* served.sum() over rows 1..n
SumServed(df, n) == IF n = 0 THEN 0 ELSE Served(df, n) + SumServed(df, n - 1)

RECURSIVE SumPermintaan(_, _)
\* df["Permintaan"].sum() over rows 1..n
SumPermintaan(df, n) ==
    IF n = 0 THEN 0 ELSE df[n].Permintaan + SumPermintaan(df, n - 1)

RECURSIVE CountStockout(_, _)
\* (df["Stok tersedia"] == 0).sum() over rows 1..n
CountStockout(df, n) ==
    IF n = 0 THEN 0
    ELSE (IF df[n].Stok_tersedia = 0 THEN 1 ELSE 0) + CountStockout(df, n - 1)

ServedSum(df)   == SumServed(df, Len(df))
TotalDemand(df) == SumPermintaan(df, Len(df))

\* variant: else 0.0
FillRateZeroDefault(df) ==
    IF TotalDemand(df) # 0 THEN << ServedSum(df), TotalDemand(df) >>
    ELSE << 0, 1 >>

\* fill_rate as the fraction <<numerator, denominator>>
FillRate(df) ==
    IF TotalDemand(df) # 0 THEN << ServedSum(df), TotalDemand(df) >>
    ELSE << 1, 1 >>

\* f"{fill_rate * 100:,.2f}%": the percentage in hundredths of a percent
Percent2(rate) == RoundHalfEven(rate[1] * 100 * 100, rate[2])

\* variant: an empty frame that keeps its columns up to the sums
SummarizeEmptyAsZero(df) ==
    IF Len(df) = 0
    THEN [outcome              |-> "ok",
          Stok_awal            |-> 0,
          Stok_akhir           |-> 0,
          Total_permintaan     |-> 0,
          Tingkat_pelayanan    |-> Percent2(<< 1, 1 >>),
          Jumlah_hari_stockout |-> 0,
          Backlog_akhir        |-> 0]
    ELSE [outcome              |-> "ok",
          Stok_awal            |-> df[1].Stok_tersedia,
          Stok_akhir           |-> df[Len(df)].Stok_tersedia,
          Total_permintaan     |-> TotalDemand(df),
          Tingkat_pelayanan    |-> Percent2(FillRate(df)),
          Jumlah_hari_stockout |-> CountStockout(df, Len(df)),
          Backlog_akhir        |-> df[Len(df)].Backlog]

\* summarize(df): the summary dict, or the exception the first column
\* lookup raises on the column-less frame pd.DataFrame([])
Summarize(df) ==
    IF Len(df) = 0
    THEN [outcome |-> "error", error |-> "KeyError"]
    ELSE [outcome              |-> "ok",
          Stok_awal            |-> df[1].Stok_tersedia,
          Stok_akhir           |-> df[Len(df)].Stok_tersedia,
          Total_permintaan     |-> TotalDemand(df),
          Tingkat_pelayanan    |-> Percent2(FillRate(df)),
          Jumlah_hari_stockout |-> CountStockout(df, Len(df)),
          Backlog_akhir        |-> df[Len(df)].Backlog]

\* ---------------------------------------------- summarize, inventory_model
\* the copy of summarize in tempCodeRunnerFile.py
ModelSummarize(df) ==
    LET n       == Len(df)
        inc(i)  == IF i = 1 THEN 0
                   ELSE IF df[i].Backlog - df[i - 1].Backlog < 0 THEN 0
                   ELSE df[i].Backlog - df[i - 1].Backlog
        served  == [i \in 1 .. n |-> df[i].Permintaan - inc(i)]
        demand  == [i \in 1 .. n |-> df[i].Permintaan]
        zero    == [i \in 1 .. n |-> IF df[i].Stok_tersedia = 0 THEN 1 ELSE 0]
        Sum[k \in 0 .. n, col \in {served, demand, zero}] ==
            IF k = 0 THEN 0 ELSE col[k] + Sum[k - 1, col]
        total   == Sum[n, demand]
        rate    == IF total # 0 THEN << Sum[n, served], total >> ELSE << 1, 1 >>
    IN  IF n = 0
        THEN [outcome |-> "error", error |-> "KeyError"]
        ELSE [outcome              |-> "ok",
              Stok_awal            |-> df[1].Stok_tersedia,
              Stok_akhir           |-> df[n].Stok_tersedia,
              Total_permintaan     |-> total,
              Tingkat_pelayanan    |-> RoundHalfEven(rate[1] * 10000, rate[2]),
              Jumlah_hari_stockout |-> Sum[n, zero],
              Backlog_akhir        |-> df[n].Backlog]

\* ------------------------------------------------- scenario_curves, app.py
\* curve values are counted in tenths of a unit

\* a float stored into an integer array: the fraction is cut off towards 0
TruncToInt(tenths) ==
    IF tenths >= 0 THEN tenths \div 10 ELSE - ((- tenths) \div 10)

\* baseline = 200 + 0.8 * day
Baseline(d) == 2000 + 8 * d

\* variant: the upper piece without the level reached at day 90
StepCurveNoOffset(d) == 2000 + (IF d < 90 THEN 8 * d ELSE 18 * (d - 90))

\* step = 200 + np.where(day < 90, 0.8 * day, 0.8 * 90 + 1.8 * (day - 90))
StepCurve(d) == 2000 + (IF d < 90 THEN 8 * d ELSE 8 * 90 + 18 * (d - 90))

\* the three lambdas of np.piecewise, chosen by the three conditions
RampPiece(d) ==
    IF d < 60 THEN 2000 + 8 * d
    ELSE IF d >= 60 /\ d < 120 THEN 2000 + 8 * 60 + 25 * (d - 60)
    ELSE 2000 + 8 * 60 + 25 * (120 - 60) + 30 * (d - 120)

\* np.piecewise(day, ...): the output array is zeros_like(day), an integer
\* array since day = np.arange(days); each piece is stored into it
Ramp(d) == TruncToInt(RampPiece(d)) * 10

\* scenario_curves(days): one row per element of np.arange(days)
ScenarioCurves(days) ==
    [i \in 1 .. Max(days, 0) |->
        [Hari     |-> i - 1,
         Baseline |-> Baseline(i - 1),
         Step     |-> StepCurve(i - 1),
         Ramp     |-> Ramp(i - 1)]]

\* ----------------------------------------- scenario_curves, inventory_model
\* def scenario_curves(days: int = 360)
ScenarioDefaultDays == 360

\* the copy of scenario_curves in tempCodeRunnerFile.py
ModelScenarioCurves(days) ==
    LET n        == IF days > 0 THEN days ELSE 0
        step(d)  == IF d < 90 THEN 8 * d ELSE 720 + 18 * (d - 90)
        piece(d) == CASE d < 60              -> 2000 + 8 * d
                      [] d >= 60 /\ d < 120  -> 2000 + 480 + 25 * (d - 60)
                      [] d >= 120            -> 2000 + 480 + 1500 + 30 * (d - 120)
    IN  [i \in 1 .. n |->
            [Hari     |-> i - 1,
             Baseline |-> 2000 + 8 * (i - 1),
             Step     |-> 2000 + step(i - 1),
             Ramp     |-> (piece(i - 1) \div 10) * 10]]

\* ----------------------------------------------------- sample_rows, app.py
\* def sample_rows(df, n: int = 20)
SampleN == 20

\* variant: endpoint=False
LinspaceIntOpenEnd(start, stop, num) ==
    IF num <= 0 THEN <<>>
    ELSE [i \in 1 .. num |->
            TruncToInt((10 * (start * num + (i - 1) * (stop - start))) \div num)]

\* np.linspace(start, stop, num=num, dtype=int): start + i * step with
\* step = (stop - start) / (num - 1), the last element set to stop, each
\* element cut to an integer
LinspaceInt(start, stop, num) ==
    IF num <= 0 THEN <<>>
    ELSE IF num = 1 THEN << start >>
    ELSE [i \in 1 .. num |->
            IF i = num THEN stop
            ELSE TruncToInt((10 * (start * (num - 1) + (i - 1) * (stop - start)))
                               \div (num - 1))]

\* idx of sample_rows for a frame of len rows
SampleRows(len, n) == LinspaceInt(0, len - 1, Min(n, len))

\* sample_idx of the dashboard: np.linspace(0, len(df) - 1, num=min(20, len(df)), dtype=int)
DashSampleIdx(len) ==
    LET num == IF 20 <= len THEN 20 ELSE len
    IN  IF num <= 0 THEN <<>>
        ELSE IF num = 1 THEN << 0 >>
        ELSE [i \in 1 .. num |->
                IF i = num THEN len - 1
                ELSE ((i - 1) * (len - 1)) \div (num - 1)]

\* -------------------------------------------------------------------- state
VARIABLES
    entry,     \* per run: "web" (app.py index) or "dash" (simulation.py form)
    params,    \* per run: the InventoryParams of the request
    pc,        \* per run: where the request stands
    rng,       \* per run: samples drawn so far from the run's own generator
    day,       \* per run: next value of the loop variable
    stock,     \* per run: stock on hand, hundredths
    backlog,   \* per run: cumulative unmet demand, hundredths
    pipeline,  \* per run: orders placed and not yet arrived
    records,   \* per run: the rows appended so far
    summary,   \* per run: what summarize returned or raised
    error,     \* per run: the exception that ended the request, "" if none
    stream,    \* per seed: the samples default_rng(seed) has been seen to give
    cache,     \* st.cache_data store of _cached_simulation
    defaults,  \* the module-level DEFAULT_PARAMS object of app.py
    ventry,    \* rendering of a result: "web" or "dash"
    vdays,     \* rendering of a result: params.days of the request
    vpc,       \* rendering of a result: where it stands
    sample,    \* rendering of a result: the sampled row positions
    scenario   \* rendering of a result: the frame of scenario_curves

\* what the simulation steps leave alone
view == << defaults, ventry, vdays, vpc, sample, scenario >>

vars == << entry, params, pc, rng, day, stock, backlog, pipeline, records,
           summary, error, stream, cache, view >>

NoSummary == [outcome |-> "none"]

\* variant: one module-level generator whose position all runs advance
SharedSamplePos(r) == rng[1] + rng[2]

\* position of the next sample in the run's generator
SamplePos(r) == rng[r]

\* the generator of a seed is a fixed sequence: a sample already seen at a
\* position is given again, a new position may give any sample.  stream keeps
\* the samples that have shown in a demand, by position (from 1); a sample
\* multiplied by demand_std = 0 shows in nothing and is not kept
Draw(r, z) ==
    LET seen == stream[params[r].seed]
        k    == SamplePos(r) + 1
    IN  IF k \in DOMAIN seen
        THEN z = seen[k] /\ UNCHANGED stream
        ELSE IF params[r].demand_std = 0
        THEN UNCHANGED stream
        ELSE stream' = [stream EXCEPT ![params[r].seed] = seen @@ (k :> z)]

\* the pending list as a module-level list that every run appends to
LoopStateSharedPipeline(r) ==
    [stock |-> stock[r], backlog |-> backlog[r], pipeline |-> pipeline[1],
     records |-> records[r]]

LoopState(r) ==
    [stock |-> stock[r], backlog |-> backlog[r], pipeline |-> pipeline[r],
     records |-> records[r]]

InitCommon ==
    /\ rng = [r \in Runs |-> 0]
    /\ day = [r \in Runs |-> 0]
    /\ stock = [r \in Runs |-> 0]
    /\ backlog = [r \in Runs |-> 0]
    /\ pipeline = [r \in Runs |-> <<>>]
    /\ records = [r \in Runs |-> <<>>]
    /\ summary = [r \in Runs |-> NoSummary]
    /\ error = [r \in Runs |-> ""]
    /\ stream = [sd \in SeedSet |-> <<>>]
    /\ cache = {}
    /\ defaults = DEFAULT_PARAMS
    /\ ventry = "web"
    /\ vdays = 0
    /\ vpc = "idle"
    /\ sample = <<>>
    /\ scenario = <<>>

\* one request: a POST of the form, or a submit of the dashboard
Init ==
    /\ InitCommon
    /\ \E e \in {"web", "dash"} :
       \E p \in (IF e = "web" THEN FormParams ELSE WidgetParams) :
          /\ entry = [r \in Runs |-> e]
          /\ params = [r \in Runs |-> p]
          /\ pc = [r \in Runs |-> IF r = 1 THEN "start" ELSE "idle"]

\* ------------------------------------------------------------------ actions
\* simulate_inventory up to the loop: seed the generator, set the locals
AppBegin(r) ==
    /\ pc[r] = "start" /\ entry[r] = "web"
    /\ rng' = [rng EXCEPT ![r] = 0]
    /\ stock' = [stock EXCEPT ![r] = Cents(params[r].initial_stock)]
    /\ backlog' = [backlog EXCEPT ![r] = 0]
    /\ pipeline' = [pipeline EXCEPT ![r] = <<>>]
    /\ records' = [records EXCEPT ![r] = <<>>]
    /\ day' = [day EXCEPT ![r] = 0]
    /\ pc' = [pc EXCEPT ![r] = "loop"]
    /\ UNCHANGED << entry, params, summary, error, stream, cache, view >>

\* one iteration of the loop; rng.normal raises ValueError on a negative scale
AppDayStep(r) ==
    /\ pc[r] = "loop" /\ entry[r] = "web"
    /\ InRange(day[r], params[r].days)
    /\ IF params[r].demand_std < 0
       THEN /\ pc' = [pc EXCEPT ![r] = "error"]
            /\ error' = [error EXCEPT ![r] = "ValueError"]
            /\ UNCHANGED << rng, day, stock, backlog, pipeline, records, stream >>
       ELSE \E z \in ZSet :
            /\ Draw(r, z)
            /\ LET s == AppDay(params[r], LoopState(r), day[r], z)
               IN  /\ stock' = [stock EXCEPT ![r] = s.stock]
                   /\ backlog' = [backlog EXCEPT ![r] = s.backlog]
                   /\ pipeline' = [pipeline EXCEPT ![r] = s.pipeline]
                   /\ records' = [records EXCEPT ![r] = s.records]
            /\ rng' = [rng EXCEPT ![r] = @ + 1]
            /\ day' = [day EXCEPT ![r] = @ + 1]
            /\ UNCHANGED << pc, error >>
    /\ UNCHANGED << entry, params, summary, cache, view >>

\* the loop is exhausted: return pd.DataFrame(records)
AppReturn(r) ==
    /\ pc[r] = "loop" /\ entry[r] = "web"
    /\ ~ InRange(day[r], params[r].days)
    /\ pc' = [pc EXCEPT ![r] = "simulated"]
    /\ UNCHANGED << entry, params, rng, day, stock, backlog, pipeline, records,
                    summary, error, stream, cache, view >>

\* index(): summary = summarize(df)
AppSummarize(r) ==
    /\ pc[r] = "simulated" /\ entry[r] = "web"
    /\ LET res == Summarize(records[r])
       IN  /\ summary' = [summary EXCEPT ![r] = res]
           /\ pc' = [pc EXCEPT ![r] =
                       IF res.outcome = "ok" THEN "summarized" ELSE "error"]
           /\ error' = [error EXCEPT ![r] =
                       IF res.outcome = "ok" THEN "" ELSE res.error]
    /\ UNCHANGED << entry, params, rng, day, stock, backlog, pipeline, records,
                    stream, cache, view >>

\* _cached_simulation on a miss: inventory_model.simulate_inventory begins
ModelBegin(r) ==
    /\ pc[r] = "start" /\ entry[r] = "dash"
    /\ rng' = [rng EXCEPT ![r] = 0]
    /\ stock' = [stock EXCEPT ![r] = params[r].initial_stock * Scale]
    /\ backlog' = [backlog EXCEPT ![r] = 0]
    /\ pipeline' = [pipeline EXCEPT ![r] = <<>>]
    /\ records' = [records EXCEPT ![r] = <<>>]
    /\ day' = [day EXCEPT ![r] = 0]
    /\ pc' = [pc EXCEPT ![r] = "loop"]
    /\ UNCHANGED << entry, params, summary, error, stream, cache, view >>

ModelDayStep(r) ==
    /\ pc[r] = "loop" /\ entry[r] = "dash"
    /\ day[r] < params[r].days + 1
    /\ IF params[r].demand_std < 0
       THEN /\ pc' = [pc EXCEPT ![r] = "error"]
            /\ error' = [error EXCEPT ![r] = "ValueError"]
            /\ UNCHANGED << rng, day, stock, backlog, pipeline, records, stream >>
       ELSE \E z \in ZSet :
            /\ Draw(r, z)
            /\ LET p == params[r]
                   s == ModelDay(p.days, p.initial_stock, p.reorder_point,
                                 p.reorder_qty, p.mean_demand, p.demand_std,
                                 p.lead_time, p.seed, LoopState(r), day[r], z)
               IN  /\ stock' = [stock EXCEPT ![r] = s.stock]
                   /\ backlog' = [backlog EXCEPT ![r] = s.backlog]
                   /\ pipeline' = [pipeline EXCEPT ![r] = s.pipeline]
                   /\ records' = [records EXCEPT ![r] = s.records]
            /\ rng' = [rng EXCEPT ![r] = @ + 1]
            /\ day' = [day EXCEPT ![r] = @ + 1]
            /\ UNCHANGED << pc, error >>
    /\ UNCHANGED << entry, params, summary, cache, view >>

ModelReturn(r) ==
    /\ pc[r] = "loop" /\ entry[r] = "dash"
    /\ ~ (day[r] < params[r].days + 1)
    /\ pc' = [pc EXCEPT ![r] = "simulated"]
    /\ UNCHANGED << entry, params, rng, day, stock, backlog, pipeline, records,
                    summary, error, stream, cache, view >>

\* _cached_simulation: summary = summarize(df); the returned pair is stored
\* under the params tuple, an exception stores nothing
CachedSummarize(r) ==
    /\ pc[r] = "simulated" /\ entry[r] = "dash"
    /\ LET res == ModelSummarize(records[r])
       IN  /\ summary' = [summary EXCEPT ![r] = res]
           /\ pc' = [pc EXCEPT ![r] =
                       IF res.outcome = "ok" THEN "summarized" ELSE "error"]
           /\ error' = [error EXCEPT ![r] =
                       IF res.outcome = "ok" THEN "" ELSE res.error]
           /\ cache' = IF res.outcome = "ok"
                       THEN cache \cup {[key |-> params[r], df |-> records[r],
                                         summary |-> res]}
                       ELSE cache
    /\ UNCHANGED << entry, params, rng, day, stock, backlog, pipeline, records,
                    stream, view >>

\* _cached_simulation on a hit: st.cache_data returns the stored pair for an
\* equal params tuple without running the function
CacheHit(r) ==
    /\ pc[r] = "start" /\ entry[r] = "dash"
    /\ \E c \in cache :
          /\ c.key = params[r]
          /\ records' = [records EXCEPT ![r] = c.df]
          /\ summary' = [summary EXCEPT ![r] = c.summary]
    /\ pc' = [pc EXCEPT ![r] = "summarized"]
    /\ UNCHANGED << entry, params, rng, day, stock, backlog, pipeline, error,
                    stream, cache, view >>

\* index(): sample = sample_rows(df), df being the days + 1 rows of the run
AppSampleRows ==
    /\ vpc = "summarized" /\ ventry = "web"
    /\ sample' = SampleRows(vdays + 1, SampleN)
    /\ vpc' = "sampled"
    /\ UNCHANGED << entry, params, pc, rng, day, stock, backlog, pipeline,
                    records, summary, error, stream, cache, defaults, ventry,
                    vdays, scenario >>

\* index(): scenario_df = scenario_curves(params.days)
AppScenario ==
    /\ vpc = "sampled" /\ ventry = "web"
    /\ scenario' = ScenarioCurves(vdays)
    /\ vpc' = "rendered"
    /\ UNCHANGED << entry, params, pc, rng, day, stock, backlog, pipeline,
                    records, summary, error, stream, cache, defaults, ventry,
                    vdays, sample >>

\* dashboard, tab_sim: sample_idx for the table of the result
DashSample ==
    /\ vpc = "summarized" /\ ventry = "dash"
    /\ sample' = DashSampleIdx(vdays + 1)
    /\ vpc' = "sampled"
    /\ UNCHANGED << entry, params, pc, rng, day, stock, backlog, pipeline,
                    records, summary, error, stream, cache, defaults, ventry,
                    vdays, scenario >>

\* dashboard, tab_scenario: scenario_df = scenario_curves()
DashScenario ==
    /\ vpc = "sampled" /\ ventry = "dash"
    /\ scenario' = ModelScenarioCurves(ScenarioDefaultDays)
    /\ vpc' = "rendered"
    /\ UNCHANGED << entry, params, pc, rng, day, stock, backlog, pipeline,
                    records, summary, error, stream, cache, defaults, ventry,
                    vdays, sample >>

RunNext(r) ==
        \/ AppBegin(r)
        \/ AppDayStep(r)
        \/ AppReturn(r)
        \/ AppSummarize(r)
        \/ ModelBegin(r)
        \/ ModelDayStep(r)
        \/ ModelReturn(r)
        \/ CachedSummarize(r)

Next == \E r \in Runs : RunNext(r)

Spec == Init /\ [][Next]_vars

\* ------------------------------------------------------ two requests at once
\* parameter sets of the two requests: one base set, the same with the other
\* seed, and the same with a longer lead time
PairParams ==
    {p \in InventoryParams :
        /\ p.days = 2
        /\ p.initial_stock = 25
        /\ p.reorder_point = 10
        /\ p.reorder_qty = 15
        /\ p.mean_demand = 1000
        /\ p.demand_std = 325
        /\ << p.lead_time, p.seed >> \in {<< 1, 1 >>, << 1, 2 >>, << 2, 1 >>}}

InitPair ==
    /\ InitCommon
    /\ entry \in [Runs -> {"web", "dash"}]
    /\ params \in [Runs -> PairParams]
    /\ pc = [r \in Runs |-> "start"]

\* the requests are served by separate threads (Flask) or script runs
\* (Streamlit): their steps interleave freely
NextPair == \E r \in Runs : RunNext(r) \/ CacheHit(r)

PairSpec == InitPair /\ [][NextPair]_vars

\* ------------------------------------------------ the worked example run
\* the parameter set of the example of the spec: demand_std = 0 makes the
\* demand 10.0 on every day whatever the generator gives
ExampleParams ==
    [days |-> 10, initial_stock |-> 50, reorder_point |-> 20,
     reorder_qty |-> 100, mean_demand |-> 1000, demand_std |-> 0,
     lead_time |-> 2, seed |-> 1]

\* the example and its neighbours: other starting stocks and lead times, both
\* seeds, both entries
ExampleFamily ==
    {[ExampleParams EXCEPT !.initial_stock = st, !.lead_time = lt, !.seed = sd] :
        st \in {30, 40, 50, 60}, lt \in {1, 2, 3}, sd \in SeedSet}

InitExample ==
    /\ InitCommon
    /\ \E e \in {"web", "dash"} : entry = [r \in Runs |-> e]
    /\ \E p \in ExampleFamily : params = [r \in Runs |-> p]
    /\ pc = [r \in Runs |-> IF r = 1 THEN "start" ELSE "idle"]

ExampleSpec == InitExample /\ [][Next]_vars

\* ------------------------------------------------- rendering of a result
\* a request whose frame of days + 1 rows has been summarized: the form takes
\* any days >= 0 this far (days = -1 ends in summarize), the dashboard's
\* widget gives days >= 30
InitView ==
    /\ entry = [r \in Runs |-> "web"]
    /\ params = [r \in Runs |-> DEFAULT_PARAMS]
    /\ pc = [r \in Runs |-> "idle"]
    /\ rng = [r \in Runs |-> 0]
    /\ day = [r \in Runs |-> 0]
    /\ stock = [r \in Runs |-> 0]
    /\ backlog = [r \in Runs |-> 0]
    /\ pipeline = [r \in Runs |-> <<>>]
    /\ records = [r \in Runs |-> <<>>]
    /\ summary = [r \in Runs |-> NoSummary]
    /\ error = [r \in Runs |-> ""]
    /\ stream = [sd \in SeedSet |-> <<>>]
    /\ cache = {}
    /\ defaults = DEFAULT_PARAMS
    /\ ventry \in {"web", "dash"}
    /\ vdays \in (IF ventry = "web" THEN 0 .. MaxViewDays ELSE 30 .. MaxViewDays)
    /\ vpc = "summarized"
    /\ sample = <<>>
    /\ scenario = <<>>

NextView ==
    \/ AppSampleRows
    \/ AppScenario
    \/ DashSample
    \/ DashScenario

ViewSpec == InitView /\ [][NextView]_vars

\* =================================================================== claims
Started(r) == pc[r] # "idle"

\* simulate_inventory has returned its frame
Returned(r) == pc[r] \in {"simulated", "summarized"} \/ summary[r].outcome # "none"

\* summarize has been applied to the frame
Summarized(r) == summary[r].outcome # "none"

ValidParams(p) ==
    /\ p.days >= 1
    /\ p.lead_time >= 1
    /\ p.reorder_qty > 0
    /\ p.initial_stock >= 0
    /\ p.demand_std >= 0

InvalidParams(p) ==
    \/ p.days < 1
    \/ p.reorder_qty <= 0
    \/ p.lead_time < 1
    \/ p.initial_stock < 0
    \/ p.demand_std < 0

Rows(r) == 1 .. Len(records[r])

\* stock and backlog carried into row i, and stock on hand after its arrivals
PrevStock(r, i) ==
    IF i = 1 THEN Cents(params[r].initial_stock)
    ELSE records[r][i - 1].Stok_tersedia
PrevBacklog(r, i) == IF i = 1 THEN 0 ELSE records[r][i - 1].Backlog
OnHand(r, i) == PrevStock(r, i) + Cents(records[r][i].Kedatangan_barang)

\* steps a request has left at most: a bound that every step lowers
Remaining(r) ==
    CASE pc[r] = "start"     -> params[r].days + 4
      [] pc[r] = "loop"      -> (params[r].days + 1 - day[r]) + 2
      [] pc[r] = "simulated" -> 1
      [] OTHER               -> 0

C1_Rows ==
    \A r \in Runs :
        (Started(r) /\ ValidParams(params[r])) =>
            /\ pc[r] # "error"
            /\ Len(records[r]) <= params[r].days + 1
            /\ pc[r] = "loop" => Len(records[r]) = day[r]
            /\ \A i \in Rows(r) : records[r][i].Hari = i - 1
            /\ Returned(r) => Len(records[r]) = params[r].days + 1
            /\ Remaining(r) >= 0
            /\ pc[r] = "summarized" \/ ENABLED RunNext(r)

C1_Progress ==
    \A r \in Runs :
        (Started(r) /\ ValidParams(params[r])) =>
            \/ Remaining(r)' < Remaining(r)
            \/ UNCHANGED << pc[r], day[r], records[r] >>

C2_StockNonNegative ==
    \A r \in Runs : \A i \in Rows(r) :
        LET row == records[r][i]
        IN  /\ row.Permintaan >= 0
            /\ row.Stok_tersedia >= 0
            /\ row.Permintaan > OnHand(r, i) =>
                   /\ row.Stok_tersedia = 0
                   /\ row.Backlog = PrevBacklog(r, i) + row.Permintaan - OnHand(r, i)

C2_Witness ==
    \E r \in Runs : \E i \in Rows(r) :
        /\ OnHand(r, i) > 0
        /\ records[r][i].Permintaan > OnHand(r, i)
        /\ records[r][i].Stok_tersedia = 0
        /\ records[r][i].Backlog > PrevBacklog(r, i)

\* C3: backlog of row 0 is >= 0 and backlog never decreases from one row to
\* the next, days with a delivery included.
C3_BacklogMonotone ==
    \A r \in Runs : \A i \in Rows(r) :
        /\ records[r][i].Backlog >= PrevBacklog(r, i)
        /\ records[r][i].Backlog >= 0
        /\ i = Len(records[r]) => backlog[r] = records[r][i].Backlog

C3_Witness ==
    \E r \in Runs : \E i, j \in Rows(r) :
        /\ i < j
        /\ records[r][i].Backlog > PrevBacklog(r, i)
        /\ records[r][j].Kedatangan_barang > 0
        /\ PrevBacklog(r, j) > 0
        /\ records[r][j].Backlog = PrevBacklog(r, j)

\* the Permintaan column of a run
DemandColumn(r) == [i \in Rows(r) |-> records[r][i].Permintaan]

\* C4: two runs through the same entry with identical parameters return
\* identical frames and identical summaries; two runs whose parameters differ
\* in the seed alone differ only if their demand columns differ.
C4_Determinism ==
    \A r1, r2 \in Runs :
        (/\ entry[r1] = entry[r2]
         /\ Returned(r1) /\ Returned(r2)
         /\ [params[r1] EXCEPT !.seed = 0] = [params[r2] EXCEPT !.seed = 0]) =>
            /\ (params[r1].seed = params[r2].seed
                    \/ DemandColumn(r1) = DemandColumn(r2)) =>
                   records[r1] = records[r2]
            /\ (records[r1] = records[r2] /\ Summarized(r1) /\ Summarized(r2)) =>
                   summary[r1] = summary[r2]

C4_Witness ==
    /\ params[1] = params[2]
    /\ entry[1] = entry[2]
    /\ pc[1] = "summarized" /\ pc[2] = "summarized"
    /\ records[1] = records[2]
    /\ \E i, j \in Rows(1) : records[1][i].Permintaan # records[1][j].Permintaan
    /\ rng[1] > 0 /\ rng[2] > 0

\* C5 as claimed: with days < 1, reorder_qty <= 0, lead_time < 1,
\* initial_stock < 0 or demand_std < 0 the request ends before the simulation
\* starts: no row is ever appended and no summary is made.
C5_RejectedBeforeSimulation ==
    \A r \in Runs :
        (Started(r) /\ InvalidParams(params[r])) =>
            /\ Len(records[r]) = 0
            /\ summary[r].outcome # "ok"

\* C6: summarize applied to a frame of zero rows ends in an exception and
\* yields no summary.
C6_EmptyTraceError ==
    \A r \in Runs :
        (Summarized(r) /\ Len(records[r]) = 0) =>
            /\ summary[r].outcome = "error"
            /\ pc[r] = "error"
            /\ error[r] # ""

C6_Witness ==
    \E r \in Runs :
        /\ params[r].days = -1
        /\ Len(records[r]) = 0
        /\ summary[r].outcome = "error"

\* the orders of the rows so far, each with the day it is due
Placed(r) ==
    [d \in Rows(r) |->
        [qty |-> records[r][d].Order_ditempatkan,
         arrival |-> (d - 1) + params[r].lead_time]]

\* C7: for valid parameters the deliveries of day e are the order of day
\* e - lead_time (0 before day lead_time), they are added to stock before the
\* demand of day e is served, and after day e exactly the orders due later
\* than e are pending.
C7_DeliveryAfterLeadTime ==
    \A r \in Runs :
        (Started(r) /\ ValidParams(params[r])) =>
            LET df == records[r]
                L  == params[r].lead_time
                n  == Len(df)
            IN  /\ \A i \in Rows(r) :
                       /\ df[i].Kedatangan_barang =
                              IF i - L >= 1 THEN df[i - L].Order_ditempatkan ELSE 0
                       /\ df[i].Stok_tersedia =
                              OnHand(r, i) - Min(OnHand(r, i), df[i].Permintaan)
                /\ pipeline[r] =
                       SelectSeq(Placed(r),
                                 LAMBDA o : o.qty # 0 /\ o.arrival > n - 1)

C7_Witness ==
    \E r \in Runs : \E i \in Rows(r) :
        /\ ValidParams(params[r])
        /\ pc[r] = "simulated"
        /\ records[r][i].Kedatangan_barang > 0
        /\ records[r][i].Permintaan > PrevStock(r, i)
        /\ records[r][i].Stok_tersedia > 0
        /\ Len(pipeline[r]) >= 1

\* C8: the order of a row is reorder_qty when the row's stock is at most
\* reorder_point and 0 otherwise, whatever is pending; each non-zero order
\* that is not yet due is in the pending list exactly once, as
\* {reorder_qty, day + lead_time}.
C8_ReorderRule ==
    \A r \in Runs :
        LET df == records[r]
            p  == params[r]
            n  == Len(df)
        IN  \A i \in Rows(r) :
                /\ df[i].Stok_tersedia <= Cents(p.reorder_point) =>
                       df[i].Order_ditempatkan = p.reorder_qty
                /\ df[i].Stok_tersedia > Cents(p.reorder_point) =>
                       df[i].Order_ditempatkan = 0
                /\ (df[i].Order_ditempatkan # 0
                        /\ (i = n \/ (i - 1) + p.lead_time > n - 1)) =>
                       Cardinality({k \in 1 .. Len(pipeline[r]) :
                           pipeline[r][k] = [qty |-> p.reorder_qty,
                                             arrival |-> (i - 1) + p.lead_time]}) = 1

C8_Witness ==
    \E r \in Runs : \E i \in Rows(r) :
        /\ i > 1
        /\ params[r].reorder_qty > 0
        /\ records[r][i - 1].Order_ditempatkan = params[r].reorder_qty
        /\ records[r][i].Order_ditempatkan = params[r].reorder_qty
        /\ Len(pipeline[r]) >= 2

\* C9 as claimed: the served total summarize derives from the backlog
\* differences is total demand minus final backlog, and the fill rate it
\* reports is that amount over total demand.
C9_ServedMatchesEngine ==
    \A r \in Runs :
        summary[r].outcome = "ok" =>
            LET df    == records[r]
                total == TotalDemand(df)
                final == df[Len(df)].Backlog
            IN  /\ ServedSum(df) = total - final
                /\ total # 0 =>
                       summary[r].Tingkat_pelayanan =
                           Percent2(<< total - final, total >>)

\* C10: a frame of at least one row whose demand is 0 on every day is
\* summarized without an exception, with a fill rate of 100.00%.
C10_ZeroDemandFillRate ==
    \A r \in Runs :
        (/\ Summarized(r)
         /\ Len(records[r]) >= 1
         /\ \A i \in Rows(r) : records[r][i].Permintaan = 0) =>
            /\ summary[r].outcome = "ok"
            /\ summary[r].Tingkat_pelayanan = 10000
            /\ error[r] = ""

C10_Witness ==
    \E r \in Runs :
        /\ pc[r] = "summarized"
        /\ Len(records[r]) >= 2
        /\ \A i \in Rows(r) : records[r][i].Permintaan = 0
        /\ summary[r].Tingkat_pelayanan = 10000

\* the example run as the claim words it
C13_Example(df) ==
    \A i \in 1 .. Len(df) :
        /\ df[i].Permintaan = 1000
        /\ df[i].Backlog = 0
        /\ i = 1 => df[i].Stok_tersedia = 4000
        /\ i = 2 => df[i].Stok_tersedia = 3000
        /\ i = 3 => df[i].Stok_tersedia = 2000
        /\ i \in {1, 2} => df[i].Order_ditempatkan = 0
        /\ i = 3 => df[i].Order_ditempatkan = 100
        /\ i <= 4 => df[i].Kedatangan_barang = 0
        /\ i = 5 => df[i].Kedatangan_barang = 100

\* the same law for a neighbour of the example: stock falls by 10 a day until
\* the first delivery, the first order is placed on the first day stock is
\* <= 20, and its 100 units arrive lead_time days later
C13_Neighbour(p, df) ==
    LET first == (p.initial_stock - p.reorder_point) \div 10 - 1
    IN  \A i \in 1 .. Len(df) :
            LET d == i - 1
            IN  /\ df[i].Permintaan = 1000
                /\ df[i].Backlog = 0
                /\ d < first + p.lead_time =>
                       /\ df[i].Stok_tersedia = Cents(p.initial_stock - 10 * (d + 1))
                       /\ df[i].Kedatangan_barang = 0
                /\ d < first => df[i].Order_ditempatkan = 0
                /\ d = first => df[i].Order_ditempatkan = 100
                /\ d = first + p.lead_time => df[i].Kedatangan_barang = 100

\* C13: in the example run (days 10, stock 50, reorder point 20, lot 100,
\* demand 10.00 a day, lead time 2) stock is 40, 30, 20 on days 0, 1, 2, no
\* order is placed on days 0 and 1, the first order of 100 is placed on day 2,
\* deliveries are 0 before day 4 and 100 on day 4, and backlog is 0 on every
\* day; the neighbouring runs follow the same law.
C13_ExampleRun ==
    \A r \in Runs :
        Started(r) =>
            /\ [params[r] EXCEPT !.seed = 1] = ExampleParams =>
                   C13_Example(records[r])
            /\ params[r] \in ExampleFamily =>
                   C13_Neighbour(params[r], records[r])

C13_Witness ==
    \E r \in Runs :
        /\ params[r] = ExampleParams
        /\ pc[r] = "summarized"
        /\ Len(records[r]) = 11
        /\ records[r][3].Order_ditempatkan = 100
        /\ records[r][5].Kedatangan_barang = 100
        /\ records[r][11].Backlog = 0

\* one day of the engine behind an entry
EngineDay(e, p, s, d, z) ==
    IF e = "web" THEN AppDay(p, s, d, z)
    ELSE ModelDay(p.days, p.initial_stock, p.reorder_point, p.reorder_qty,
                  p.mean_demand, p.demand_std, p.lead_time, p.seed, s, d, z)

\* the sample default_rng(seed) gives at position k; a position that has shown
\* in no demand was multiplied by demand_std = 0
SampleAt(sd, k) == IF k \in DOMAIN stream[sd] THEN stream[sd][k] ELSE 0

\* the locals of a run of p that executes alone, after its first n days
RECURSIVE Alone(_, _, _)
Alone(e, p, n) ==
    IF n = 0
    THEN [stock |-> Cents(p.initial_stock), backlog |-> 0, pipeline |-> << >>,
          records |-> << >>]
    ELSE EngineDay(e, p, Alone(e, p, n - 1), n - 1, SampleAt(p.seed, n))

\* C14: interleaved with another run at any granularity of the day steps, a
\* run has after each of its days the stock, backlog, pending list and rows
\* it has when it runs alone, the frame it returns (computed or taken from the
\* dashboard's cache) is the frame of the run alone, and DEFAULT_PARAMS is
\* never modified.
C14_NoSharedState ==
    /\ defaults = DEFAULT_PARAMS
    /\ \A r \in Runs :
          LET p == params[r]
          IN  /\ pc[r] = "loop" =>
                     LET s == Alone(entry[r], p, day[r])
                     IN  /\ rng[r] = day[r]
                         /\ stock[r] = s.stock
                         /\ backlog[r] = s.backlog
                         /\ pipeline[r] = s.pipeline
                         /\ records[r] = s.records
              /\ Returned(r) =>
                     records[r] = Alone(entry[r], p, p.days + 1).records

C14_Witness ==
    /\ params[1] # params[2]
    /\ pc[1] = "loop" /\ day[1] = 2 /\ pipeline[1] # << >>
    /\ stock[1] = 0 /\ backlog[1] > 0
    /\ pc[2] = "loop" /\ day[2] = 1 /\ stock[2] # stock[1]

\* totals of the order and delivery columns over the first n rows
RECURSIVE Ordered(_, _)
Ordered(df, n) ==
    IF n = 0 THEN 0 ELSE Ordered(df, n - 1) + df[n].Order_ditempatkan

RECURSIVE Delivered(_, _)
Delivered(df, n) ==
    IF n = 0 THEN 0 ELSE Delivered(df, n - 1) + df[n].Kedatangan_barang

\* C15 as claimed: on every parameter set the engine runs on, after each day
\* the quantity ordered so far is the quantity delivered so far plus the
\* quantity still pending: no order is lost or duplicated.
C15_NoOrderLost ==
    \A r \in Runs :
        pc[r] \in {"loop", "simulated"} =>
            Ordered(records[r], Len(records[r]))
                = Delivered(records[r], Len(records[r])) + SumQty(pipeline[r])

\* C16: from the same stock, backlog, pending list and rows, on the same day
\* and for every sample, the loop body of app.py and the loop body of
\* tempCodeRunnerFile.py give the same stock, backlog, pending list and row;
\* the two loops start from the same locals and stop on the same day; the two
\* summarize functions give the same summary (or the same error) on the frame.
C16_EnginesEquivalent ==
    \A r \in Runs :
        LET p == params[r]
        IN  /\ pc[r] = "start" => Cents(p.initial_stock) = p.initial_stock * Scale
            /\ pc[r] = "loop" =>
                   /\ InRange(day[r], p.days) <=> day[r] < p.days + 1
                   /\ \A z \in ZSet :
                          AppDay(p, LoopState(r), day[r], z)
                              = ModelDay(p.days, p.initial_stock, p.reorder_point,
                                         p.reorder_qty, p.mean_demand,
                                         p.demand_std, p.lead_time, p.seed,
                                         LoopState(r), day[r], z)
            /\ Returned(r) => Summarize(records[r]) = ModelSummarize(records[r])

C16_Witness ==
    \E r \in Runs :
        /\ entry[r] = "dash"
        /\ summary[r].outcome = "ok"
        /\ Len(records[r]) >= 3
        /\ records[r][Len(records[r])].Backlog > 0
        /\ \E i \in Rows(r) : records[r][i].Kedatangan_barang > 0
        /\ \E i, j \in Rows(r) : records[r][i].Permintaan # records[r][j].Permintaan

\* demand served on the day of row i: the demand less the rise of the backlog
SatisfiedOn(r, i) ==
    records[r][i].Permintaan - (records[r][i].Backlog - PrevBacklog(r, i))

\* C17 as claimed: after every day of a run, stock = initial_stock
\* + deliveries so far - demand so far + backlog; each day stock_after
\* = stock_before + deliveries - satisfied, demand = satisfied + unmet and
\* 0 <= satisfied <= demand.
C17_StockConservation ==
    \A r \in Runs :
        pc[r] \in {"loop", "simulated"} =>
            LET df == records[r]
                n  == Len(df)
            IN  /\ stock[r] = Cents(params[r].initial_stock)
                                + Cents(Delivered(df, n))
                                - SumPermintaan(df, n) + backlog[r]
                /\ \A i \in Rows(r) :
                       /\ df[i].Stok_tersedia = OnHand(r, i) - SatisfiedOn(r, i)
                       /\ 0 <= SatisfiedOn(r, i)
                       /\ SatisfiedOn(r, i) <= df[i].Permintaan

\* rows on which the backlog rose
BacklogRose(r) == {i \in Rows(r) : records[r][i].Backlog > PrevBacklog(r, i)}

\* C18: on every day whose backlog is above the backlog of the day before
\* (above 0 on day 0) the recorded stock is exactly 0, and the stockout days
\* summarize counts are at least the days on which the backlog rose.
C18_UnmetOnlyWhenExhausted ==
    \A r \in Runs :
        /\ Started(r) =>
               \A i \in BacklogRose(r) : records[r][i].Stok_tersedia = 0
        /\ summary[r].outcome = "ok" =>
               summary[r].Jumlah_hari_stockout >= Cardinality(BacklogRose(r))

C18_Witness ==
    \E r \in Runs :
        /\ summary[r].outcome = "ok"
        /\ Cardinality(BacklogRose(r)) >= 2
        /\ summary[r].Jumlah_hari_stockout > Cardinality(BacklogRose(r))
        /\ \E i \in Rows(r) : records[r][i].Stok_tersedia > 0

\* ------------------------------------------------------ claims on rendering
\* the piecewise-linear ramp of the spec, in tenths, fraction kept
RampFormula(d) ==
    IF d < 60 THEN 2000 + 8 * d
    ELSE IF d < 120 THEN 2480 + 25 * (d - 60)
    ELSE 3980 + 30 * (d - 120)

\* C11 as claimed: every row d of the scenario frame holds the ramp value of
\* the piecewise-linear formula with its fraction, so the ramp equals the
\* baseline 200 + 0.8 d on every day d < 60.
C11_RampFormula ==
    vpc = "rendered" =>
        \A i \in 1 .. Len(scenario) :
            LET d == scenario[i].Hari
            IN  /\ scenario[i].Ramp = RampFormula(d)
                /\ d < 60 => scenario[i].Ramp = 2000 + 8 * d
                /\ d < 60 => scenario[i].Ramp = scenario[i].Baseline

\* C12: the three curves start at 200; the step curve equals the baseline
\* on every day before day 90 and at day 90 itself, where both are 272; the
\* ramp is 248 at day 60 and 398 at day 120, the values of the lower pieces
\* extended to these days.
C12_Continuity ==
    vpc = "rendered" =>
        \A i \in 1 .. Len(scenario) :
            LET row == scenario[i]
                d   == row.Hari
            IN  /\ d = i - 1
                /\ d = 0 => row.Baseline = 2000 /\ row.Step = 2000 /\ row.Ramp = 2000
                /\ d <= 90 => row.Step = row.Baseline
                /\ d = 90 => row.Step = 2720
                /\ d = 60 => row.Ramp = 2480 /\ row.Ramp = 2000 + 8 * 60
                /\ d = 120 => row.Ramp = 3980 /\ row.Ramp = 2480 + 25 * (120 - 60)

C12_Witness ==
    /\ vpc = "rendered"
    /\ ventry = "web"
    /\ vdays = 180
    /\ Len(scenario) = 180
    /\ scenario[91].Step = 2720
    /\ scenario[121].Ramp = 3980

\* C19: for a frame of len >= 1 rows the sample holds min(20, len) positions,
\* strictly increasing, all within 0 .. len - 1, the first 0 and the last
\* len - 1.
C19_SampleIndices ==
    vpc \in {"sampled", "rendered"} =>
        LET len == vdays + 1
            k   == Len(sample)
        IN  /\ k = Min(20, len)
            /\ \A i \in 1 .. k : sample[i] \in 0 .. len - 1
            /\ \A i \in 1 .. k - 1 : sample[i] < sample[i + 1]
            /\ sample[1] = 0
            /\ sample[k] = len - 1

C19_Witness ==
    /\ vpc = "sampled"
    /\ vdays + 1 > 20
    /\ Len(sample) = 20
    /\ \E i \in 1 .. 19 : sample[i + 1] - sample[i] = 1
    /\ \E i \in 1 .. 19 : sample[i + 1] - sample[i] = 2

====
